---- MODULE Spec2Model ----
(***************************************************************************)
(* A model of the ACPI table-parsing code:                                 *)
(*   - Srat::entries and SratEntryIter::next   (src/src/sdt/srat.rs)       *)
(*   - MemoryAffinity::base_address / length   (src/src/sdt/srat.rs)       *)
(*   - NumaInfo::new_in                        (src/src/platform/numa.rs)  *)
(*   - Slit::matrix and Slit::entry            (src/src/sdt/slit.rs)       *)
(*   - wakeup_aps                              (src/acpi/src/platform/mod.rs) *)
(* Each component has its own specification (SratSpec, NumaSpec, SlitSpec, *)
(* WakeSpec); the variables of the other components stay at their initial  *)
(* values.                                                                 *)
(***************************************************************************)
EXTENDS Integers, Sequences, FiniteSets

VARIABLES
    \* ---- SRAT iterator (srat.rs) ---------------------------------------
    hdrLen,            \* Srat.header.length (u32), as declared by firmware
    mem,               \* the mapped bytes that follow the Srat struct: mem[k] is the byte at offset SratSize + k - 1
    spc,               \* "new" | "idle" | "loop" | "panic" | "fault"
    pointer,           \* SratEntryIter.pointer, as an offset from the table base
    remaining_length,  \* SratEntryIter.remaining_length (u32, see U32Gt)
    lastRet,           \* what the last completed call of next() returned: "-" | "Some" | "None"
    yielded,           \* history: the entries next() has returned, <<offset, type tag, variant>>
    consumed,          \* history: the cursor steps taken, <<offset, length>>
    readEnd,           \* history: one past the highest offset read as an entry sub-header
    \* ---- NumaInfo (numa.rs) and MemoryAffinity (srat.rs) ---------------
    entry,             \* the SRAT MemoryAffinity entry being folded (its packed fields)
    memory_affinity,   \* NumaInfo.memory_affinity
    \* ---- SLIT (slit.rs) ------------------------------------------------
    num_proximity_domains,  \* Slit.num_proximity_domains (u64)
    slitLen,           \* Slit.header.length
    slitMem,           \* the first bytes that follow the Slit struct
    slitCall,          \* the last call made: <<"-">>, <<"matrix">> or <<"entry", i, j>>
    slitRet,           \* what that call returned
    \* ---- wakeup_aps (platform/mod.rs) ----------------------------------
    hasMailbox,        \* the MADT is found and names a wakeup mailbox
    wpc,               \* where the caller's volatile accesses are: "idle" | "reset" | "signal" | "wait"
    attemptNo,         \* history: the number of calls of wakeup_aps so far
    apic_id,           \* argument of the current call
    wakeup_vector,     \* argument of the current call
    timeout_loops,     \* argument of the current call
    loops,             \* local of wakeup_aps
    command,           \* local of wakeup_aps
    wres,              \* what the last call returned: "-" | "Ok" | "Timeout" | "NoMailbox"
    readLog,           \* history: the values the volatile reads of the current call returned
    writeLog,          \* history: the mailbox stores of the current call, in the order they took effect
    mb_command,        \* mailbox.command (u16)
    mb_apic_id,        \* mailbox.apic_id
    mb_wakeup_vector,  \* mailbox.wakeup_vector
    cmdWriter,         \* history: the call that wrote the Wakeup now in mb_command (0: none)
    maps,              \* history: the number of map_physical_region calls
    unmaps,            \* history: the number of mappings released
    held,              \* the mappings currently held (by the number of the call that made them)
    appc,              \* where the target processor is: "poll" | "apic" | "vector" | "ack"
    apSeen,            \* what the target processor has read of the request it is consuming
    consumedReqs       \* history: the requests the target processor consumed and acknowledged

sratVars == <<hdrLen, mem, spc, pointer, remaining_length, lastRet, yielded, consumed, readEnd>>
numaVars == <<entry, memory_affinity>>
slitVars == <<num_proximity_domains, slitLen, slitMem, slitCall, slitRet>>
wakeVars == <<hasMailbox, wpc, attemptNo, apic_id, wakeup_vector, timeout_loops, loops, command,
              wres, readLog, writeLog, mb_command, mb_apic_id, mb_wakeup_vector, cmdWriter, maps, unmaps,
              held, appc, apSeen, consumedReqs>>

vars == <<sratVars, numaVars, slitVars, wakeVars>>

(***************************************************************************)
(* The state of a component that a specification does not exercise.        *)
(***************************************************************************)
SratParked ==
    /\ hdrLen = 0 /\ mem = <<>> /\ spc = "off" /\ pointer = 0 /\ remaining_length = 0
    /\ lastRet = "-" /\ yielded = <<>> /\ consumed = <<>> /\ readEnd = 0

NumaParked == entry = <<>> /\ memory_affinity = <<>>

SlitParked ==
    /\ num_proximity_domains = 0 /\ slitLen = 0 /\ slitMem = <<>>
    /\ slitCall = <<"-">> /\ slitRet = <<"-">>

WakeParked ==
    /\ hasMailbox = FALSE /\ wpc = "off" /\ attemptNo = 0 /\ apic_id = 0 /\ wakeup_vector = 0
    /\ timeout_loops = 0 /\ loops = 0 /\ command = "-" /\ wres = "-" /\ readLog = <<>>
    /\ mb_command = 0 /\ mb_apic_id = 0 /\ mb_wakeup_vector = 0 /\ cmdWriter = 0
    /\ maps = 0 /\ unmaps = 0 /\ held = {} /\ appc = "off" /\ apSeen = <<>> /\ consumedReqs = {}
    /\ writeLog = <<>>

(***************************************************************************)
(* Bounds of the model.                                                    *)
(***************************************************************************)
\* The longest table body (bytes after the Srat struct) that is enumerated.
MaxBody == 6

(***************************************************************************)
(* Layout constants.                                                       *)
(***************************************************************************)
\* size_of::<SdtHeader>(): the common header every table starts with.
SdtHeaderSize == 36
\* size_of::<Srat>(): SdtHeader + u32 + u64, packed.
SratSize == 48
\* size_of::<EntryHeader>(): typ: u8, length: u16, packed.
EntryHeaderSize == 3

\* The byte values the firmware bytes are drawn from: as a type tag 0 and 3
\* are known variants and 6 is unknown; as a length byte they give 0, 3, 6
\* (low byte) and 0, 768, 1536 (high byte).
ByteVals == {0, 3, 6}

\* The mapping of the table extends one byte past the longest table.
MemSize == MaxBody + 1
MappedEnd == SratSize + MemSize

\* The header.length values enumerated: two that pass the lookup's
\* length >= size_of(SdtHeader) test but are shorter than the Srat struct,
\* and every length from an empty body to MaxBody.
HdrLens == {SdtHeaderSize, SratSize - 1} \cup (SratSize .. SratSize + MaxBody)

\* The model stops counting cursor steps here (above every table length).
StepCap == SratSize + MaxBody + 2

(***************************************************************************)
(* u32 arithmetic.  A u32 value v < 2^31 is held as v; a value v >= 2^31   *)
(* is held as v - 2^32 (the same 32-bit pattern read as two's complement), *)
(* since the integers of the model end at 2^31 - 1.                        *)
(***************************************************************************)
\* a > b on u32
U32Gt(a, b) == IF (a < 0) = (b < 0) THEN a > b ELSE a < 0

\* a.wrapping_sub(b) for a, b < 2^31: the bit pattern of a - b
U32WrappingSub(a, b) == a - b

\* u32::saturating_sub
SaturatingSub(a, b) == IF U32Gt(b, a) THEN 0 ELSE a - b

(***************************************************************************)
(* Memory reads.                                                           *)
(***************************************************************************)
ByteAt(off) == mem[off - SratSize + 1]

\* *(pointer as *const EntryHeader): typ at +0, length (u16, little endian) at +1..+2
HeaderTyp(p) == ByteAt(p)
HeaderLength(p) == ByteAt(p + 1) + 256 * ByteAt(p + 2)

\* Whether the EntryHeaderSize bytes at p are mapped at all.
HeaderMapped(p) == p + EntryHeaderSize <= MappedEnd

\* size_of the typed view next() returns for a type tag
ViewSize(typ) ==
    CASE typ = 0 -> 16   \* LocalApicAffinity
      [] typ = 1 -> 40   \* MemoryAffinity
      [] typ = 2 -> 24   \* LocalApicX2Affinity
      [] typ = 3 -> 18   \* GiccAffinity
      [] typ = 4 -> 12   \* GicItsAffinity
      [] typ = 5 -> 32   \* GicInitiatorAffinity
      [] OTHER -> 0

\* the match arms 0..=5 of next()
KnownType(typ) == typ \in 0..5

\* the SratEntry variant each match arm of next() returns
Variant(typ) ==
    CASE typ = 0 -> "LocalApicAffinity"
      [] typ = 1 -> "MemoryAffinity"
      [] typ = 2 -> "LocalApicX2Affinity"
      [] typ = 3 -> "GiccAffinity"
      [] typ = 4 -> "GicItsAffinity"
      [] typ = 5 -> "GicInitiatorAffinity"
      [] OTHER -> "-"

(***************************************************************************)
(* Srat::entries                                                           *)
(***************************************************************************)
\* self.header.length - size_of::<Srat>() as u32, without overflow checks
InitialBudget(len) == U32WrappingSub(len, SratSize)

SratInit ==
    /\ hdrLen \in HdrLens
    /\ mem \in [1..MemSize -> ByteVals]
    /\ spc = "new"
    /\ pointer = 0
    /\ remaining_length = 0
    /\ lastRet = "-"
    /\ yielded = <<>>
    /\ consumed = <<>>
    /\ readEnd = 0
    /\ NumaParked /\ SlitParked /\ WakeParked

\* entries(): the iterator starts right after the Srat struct.  When
\* header.length < size_of::<Srat>() the subtraction overflows: a build
\* without overflow checks wraps (this action), one with them panics
\* (EntriesOverflowPanic).
Entries ==
    /\ spc = "new"
    /\ spc' = "idle"
    /\ pointer' = SratSize
    /\ remaining_length' = InitialBudget(hdrLen)
    /\ UNCHANGED <<hdrLen, mem, lastRet, yielded, consumed, readEnd>>
    /\ UNCHANGED <<numaVars, slitVars, wakeVars>>

EntriesOverflowPanic ==
    /\ spc = "new"
    /\ hdrLen < SratSize
    /\ spc' = "panic"
    /\ UNCHANGED <<hdrLen, mem, pointer, remaining_length, lastRet, yielded, consumed, readEnd>>
    /\ UNCHANGED <<numaVars, slitVars, wakeVars>>

(***************************************************************************)
(* SratEntryIter::next, one iteration of its while loop per step.          *)
(* spc = "idle": between calls (a step starts a call);                     *)
(* spc = "loop": inside a call, back at the loop head after a skipped      *)
(* entry.                                                                  *)
(***************************************************************************)
InNext == spc \in {"idle", "loop"}

\* while self.remaining_length > 0
LoopCond == U32Gt(remaining_length, 0)

\* Mutant (C2): the bound check is missing.
ExceedsRemainingUnchecked(len, rem) == FALSE

\* header.length as u32 > self.remaining_length
ExceedsRemaining(len, rem) == U32Gt(len, rem)

\* Mutant (C10): the declared length is taken to exclude the sub-header.
AdvancePointerPastHeader(p, len) == p + EntryHeaderSize + len

\* self.pointer.byte_offset(header.length as isize)
AdvancePointer(p, len) == p + len

\* The loop ends: return None.
NextExhausted ==
    /\ InNext
    /\ ~LoopCond
    /\ spc' = "idle"
    /\ lastRet' = "None"
    /\ UNCHANGED <<hdrLen, mem, pointer, remaining_length, yielded, consumed, readEnd>>
    /\ UNCHANGED <<numaVars, slitVars, wakeVars>>

\* The sub-header read touches unmapped memory.
NextFault ==
    /\ InNext
    /\ LoopCond
    /\ ~HeaderMapped(pointer)
    /\ spc' = "fault"
    /\ readEnd' = IF pointer + EntryHeaderSize > readEnd THEN pointer + EntryHeaderSize ELSE readEnd
    /\ UNCHANGED <<hdrLen, mem, pointer, remaining_length, lastRet, yielded, consumed>>
    /\ UNCHANGED <<numaVars, slitVars, wakeVars>>

\* The entry extends past the remaining budget: warn and return None.
NextMalformed ==
    /\ InNext
    /\ LoopCond
    /\ HeaderMapped(pointer)
    /\ ExceedsRemaining(HeaderLength(pointer), remaining_length)
    /\ spc' = "idle"
    /\ lastRet' = "None"
    /\ readEnd' = IF pointer + EntryHeaderSize > readEnd THEN pointer + EntryHeaderSize ELSE readEnd
    /\ UNCHANGED <<hdrLen, mem, pointer, remaining_length, yielded, consumed>>
    /\ UNCHANGED <<numaVars, slitVars, wakeVars>>

\* The cursor step of lines 78-79, shared by the two outcomes of the match.
CursorStep ==
    /\ InNext
    /\ LoopCond
    /\ HeaderMapped(pointer)
    /\ ~ExceedsRemaining(HeaderLength(pointer), remaining_length)
    /\ Len(consumed) < StepCap
    /\ pointer' = AdvancePointer(pointer, HeaderLength(pointer))
    /\ remaining_length' = SaturatingSub(remaining_length, HeaderLength(pointer))
    /\ consumed' = Append(consumed, <<pointer, HeaderLength(pointer)>>)
    /\ readEnd' = IF pointer + EntryHeaderSize > readEnd THEN pointer + EntryHeaderSize ELSE readEnd
    /\ UNCHANGED <<hdrLen, mem>>
    /\ UNCHANGED <<numaVars, slitVars, wakeVars>>

\* A known type tag: return Some(view at entry_pointer).
NextYield ==
    /\ CursorStep
    /\ KnownType(HeaderTyp(pointer))
    /\ yielded' = Append(yielded, <<pointer, HeaderTyp(pointer), Variant(HeaderTyp(pointer))>>)
    /\ spc' = "idle"
    /\ lastRet' = "Some"

\* An unrecognised type tag: warn and go round the loop again.
NextSkip ==
    /\ CursorStep
    /\ ~KnownType(HeaderTyp(pointer))
    /\ spc' = "loop"
    /\ UNCHANGED <<yielded, lastRet>>

SratNext ==
    \/ Entries
    \/ EntriesOverflowPanic
    \/ NextExhausted
    \/ NextFault
    \/ NextMalformed
    \/ NextYield
    \/ NextSkip

SratSpec == SratInit /\ [][SratNext]_vars

(***************************************************************************)
(* Claims about the SRAT iterator (checked under SratSpec).                *)
(***************************************************************************)
\* The entry stream is well formed: every entry's declared length covers at
\* least its sub-header and the lengths sum to header.length - size_of(Srat).
RECURSIVE WellFormedFrom(_)
WellFormedFrom(off) ==
    IF off = hdrLen THEN TRUE
    ELSE /\ off + EntryHeaderSize <= hdrLen
         /\ HeaderLength(off) >= EntryHeaderSize
         /\ off + HeaderLength(off) <= hdrLen
         /\ WellFormedFrom(off + HeaderLength(off))

WellFormed == hdrLen >= SratSize /\ WellFormedFrom(SratSize)

\* The entry at the cursor declares more bytes than the remaining budget.
MalformedAtCursor ==
    /\ InNext
    /\ LoopCond
    /\ HeaderMapped(pointer)
    /\ U32Gt(HeaderLength(pointer), remaining_length)

\* The number of cursor steps that cover body byte b.
Coverage(b) ==
    Cardinality({k \in 1..Len(consumed) :
                    consumed[k][1] <= b /\ b < consumed[k][1] + consumed[k][2]})

\* C1: for every table with header.length >= size_of(SdtHeader), every byte
\* read as an entry sub-header and every byte of every yielded typed view
\* lies below header.length, and the initial budget
\* header.length - size_of(Srat) does not wrap (nor does computing it panic).
C1_ReadsStayInsideTable ==
    /\ spc # "panic"
    /\ spc # "new" => remaining_length >= 0
    /\ readEnd <= hdrLen
    /\ \A k \in 1..Len(yielded) : yielded[k][1] + ViewSize(yielded[k][2]) <= hdrLen

\* C2: when the entry at the cursor declares a length greater than the
\* remaining budget, the next step of next() returns None, leaves the cursor,
\* the budget and the entries yielded so far as they are, and the iterator is
\* still at a malformed entry afterwards (so every later call ends the same way).
C2_MalformedStopsIteration ==
    [][MalformedAtCursor =>
          /\ pointer' = pointer
          /\ remaining_length' = remaining_length
          /\ yielded' = yielded
          /\ consumed' = consumed
          /\ spc' = "idle"
          /\ lastRet' = "None"
          /\ MalformedAtCursor']_vars

\* C2 witness: an entry was yielded, then a malformed one stopped the iterator.
C2_Witness ==
    /\ MalformedAtCursor
    /\ lastRet = "None"
    /\ spc = "idle"
    /\ Len(yielded) >= 1

\* C3: the iterator takes at most header.length cursor steps, whatever the
\* entry types and lengths (stated for tables at least as long as the Srat
\* struct, whose budget is the body length).
C3_StepsBoundedByTableLength ==
    hdrLen >= SratSize => Len(consumed) <= hdrLen

\* C10: on a well-formed entry stream the iterator neither panics nor
\* faults, each cursor step starts where the previous one ended and advances
\* by the entry's declared length, cursor offset + remaining_length stays
\* equal to header.length with 0 <= remaining_length, and once next() has
\* returned None remaining_length = 0 and every body byte is covered by
\* exactly one entry.
C10_WellFormedStreamConsumedExactly ==
    (WellFormed /\ spc # "new") =>
        /\ InNext
        /\ pointer + remaining_length = hdrLen
        /\ remaining_length \in 0..(hdrLen - SratSize)
        /\ \A k \in 1..Len(consumed) :
              /\ consumed[k][1] = IF k = 1 THEN SratSize
                                  ELSE consumed[k-1][1] + consumed[k-1][2]
              /\ consumed[k][2] = HeaderLength(consumed[k][1])
        /\ Len(consumed) > 0 =>
              pointer = consumed[Len(consumed)][1] + consumed[Len(consumed)][2]
        /\ lastRet = "None" =>
              /\ remaining_length = 0
              /\ pointer = hdrLen
              /\ \A b \in SratSize..(hdrLen - 1) : Coverage(b) = 1

\* C10 witness: a well-formed stream of two entries, one of them of an
\* unrecognised type, iterated to exhaustion.
C10_Witness ==
    /\ WellFormed
    /\ lastRet = "None"
    /\ Len(consumed) = 2
    /\ Len(yielded) = 1

\* The variant the claim names for each type tag.
TagVariant ==
    [t \in 0..5 |-> CASE t = 0 -> "LocalApicAffinity"
                      [] t = 1 -> "MemoryAffinity"
                      [] t = 2 -> "LocalApicX2Affinity"
                      [] t = 3 -> "GiccAffinity"
                      [] t = 4 -> "GicItsAffinity"
                      [] t = 5 -> "GicInitiatorAffinity"]

\* The table's in-bounds entries with a type tag in 0..5, in source order,
\* from offset off on: an entry is in bounds when its sub-header and its
\* declared length (which covers at least the sub-header) end at or before
\* header.length; the first entry that is not ends the list.
RECURSIVE TableEntriesFrom(_)
TableEntriesFrom(off) ==
    IF off + EntryHeaderSize > hdrLen THEN <<>>
    ELSE IF HeaderLength(off) < EntryHeaderSize \/ off + HeaderLength(off) > hdrLen THEN <<>>
    ELSE (IF HeaderTyp(off) \in 0..5
          THEN <<<<off, HeaderTyp(off), TagVariant[HeaderTyp(off)]>>>>
          ELSE <<>>)
         \o TableEntriesFrom(off + HeaderLength(off))

IsPrefix(a, b) == Len(a) <= Len(b) /\ \A k \in 1..Len(a) : a[k] = b[k]

\* C11: the entries yielded are, in order, the table's in-bounds entries
\* with a type tag in 0..5, each as the variant of its tag at its own start
\* offset (entries with another tag are passed over and do not end the
\* iteration): what has been yielded so far is a prefix of that list, and
\* it is the whole list once next() has returned None.
C11_YieldsKnownEntriesInOrder ==
    (spc \in {"idle", "loop", "fault"}) =>
        /\ IsPrefix(yielded, TableEntriesFrom(SratSize))
        /\ lastRet = "None" => yielded = TableEntriesFrom(SratSize)

(***************************************************************************)
(* MemoryAffinity::base_address / length and NumaInfo::new_in.             *)
(* A u32 is held as its two 16-bit limbs <<low, high>> and a u64 as its    *)
(* four 16-bit limbs, least significant first.                             *)
(***************************************************************************)
\* The u32 values the packed fields are drawn from:
\* 0, 1, 0xAAAABBBB and 0xFFFFFFFF.
U32Vals == {<<0, 0>>, <<1, 0>>, <<48059, 43690>>, <<65535, 65535>>}

\* x as u64, for a u32 x
AsU64(x) == <<x[1], x[2], 0, 0>>

\* BitField::set_bits(32..64, value) on a u64: bits 0..32 keep their value,
\* bits 32..64 take the low 32 bits of value (which must fit in 32 bits).
SetBits32To64(x, value) == <<x[1], x[2], value[1], value[2]>>

\* MemoryAffinity::base_address
BaseAddress(e) == SetBits32To64(AsU64(e.base_address_low), AsU64(e.base_address_high))

\* MemoryAffinity::length
Length(e) == SetBits32To64(AsU64(e.length_low), AsU64(e.base_address_high))

\* MemoryAffinityFlags::ENABLED = 1
FlagEnabled(flags) == flags % 2 = 1

NumaInit ==
    /\ entry \in [base_address_low : U32Vals, base_address_high : U32Vals,
                  length_low : U32Vals, length_high : U32Vals, flags : {0, 1}]
    /\ memory_affinity = <<>>
    /\ SratParked /\ SlitParked /\ WakeParked

\* The SratEntry::MemoryAffinity arm of NumaInfo::new_in: push the decoded entry.
NumaPushMemoryAffinity ==
    /\ memory_affinity = <<>>
    /\ memory_affinity' = Append(memory_affinity,
            [base_address |-> BaseAddress(entry),
             length |-> Length(entry),
             is_enabled |-> FlagEnabled(entry.flags)])
    /\ UNCHANGED <<entry, sratVars, slitVars, wakeVars>>

NumaNext == NumaPushMemoryAffinity

NumaSpec == NumaInit /\ [][NumaNext]_vars

\* high * 2^32 + low as a u64, for u32 low and high
Join64(low, high) == <<low[1], low[2], high[1], high[2]>>

\* C9: the decoded base address is base_address_high * 2^32 + base_address_low,
\* the decoded length is length_high * 2^32 + length_low, and NumaInfo stores
\* both.
C9_WideFieldsReassembled ==
    \A k \in 1..Len(memory_affinity) :
        /\ memory_affinity[k].base_address = Join64(entry.base_address_low, entry.base_address_high)
        /\ memory_affinity[k].length = Join64(entry.length_low, entry.length_high)

(***************************************************************************)
(* Slit::matrix and Slit::entry.                                           *)
(***************************************************************************)
\* The largest num_proximity_domains enumerated.
MaxN == 2

\* size_of::<Slit>(): SdtHeader + u64, packed.
SlitSize == 44

\* The distance bytes the matrix is drawn from.
DistVals == {5, 10}

\* The bytes after the Slit struct that are enumerated; the bytes after
\* them, up to header.length, are 0.
SlitFree == MaxN * MaxN
SlitByte(k) == IF k <= SlitFree THEN slitMem[k] ELSE 0

\* The header.length values enumerated: around size_of(Slit) + n^2 and
\* size_of(Slit) + n^4 for each n.
SlitLens ==
    {SlitSize} \cup {SlitSize + n * n - d : n \in 1..MaxN, d \in {0, 1}}
               \cup {SlitSize + n * n * n * n - d : n \in 1..MaxN, d \in {0, 1}}

\* u64 / usize multiplication (64-bit target).  The operands enumerated are
\* at most MaxN^2, so no product comes near 2^64.
MulU64(a, b) == a * b

\* Slit::matrix: the length of the slice it returns (the slice starts at
\* offset size_of(Slit)).
MatrixLen(n, len) ==
    LET num_entries == MulU64(n, n)
    IN  IF SlitSize + MulU64(num_entries, num_entries) > len THEN 0 ELSE num_entries

\* The guard of Slit::entry.
EntryGuard(i, j, n) == i <= n /\ j <= n

\* The index Slit::entry reads.
EntryIndex(i, j, n) == i + MulU64(j, n)

\* Slit::entry: Some(byte), None, or a panic on the slice index.
SlitEntry(i, j, n, len) ==
    IF EntryGuard(i, j, n)
    THEN IF EntryIndex(i, j, n) < MatrixLen(n, len)
         THEN <<"Some", SlitByte(EntryIndex(i, j, n) + 1)>>
         ELSE <<"panic">>
    ELSE <<"None">>

SlitInit ==
    /\ num_proximity_domains \in 0..MaxN
    /\ slitLen \in SlitLens
    /\ slitMem \in [1..SlitFree -> DistVals]
    /\ slitCall = <<"-">>
    /\ slitRet = <<"-">>
    /\ SratParked /\ NumaParked /\ WakeParked

CallMatrix ==
    /\ slitCall' = <<"matrix">>
    /\ slitRet' = <<"slice", MatrixLen(num_proximity_domains, slitLen)>>
    /\ UNCHANGED <<num_proximity_domains, slitLen, slitMem, sratVars, numaVars, wakeVars>>

CallEntry ==
    \E i \in 0..(MaxN + 1), j \in 0..(MaxN + 1) :
        /\ slitCall' = <<"entry", i, j>>
        /\ slitRet' = SlitEntry(i, j, num_proximity_domains, slitLen)
        /\ UNCHANGED <<num_proximity_domains, slitLen, slitMem, sratVars, numaVars, wakeVars>>

SlitNext == CallMatrix \/ CallEntry

SlitSpec == SlitInit /\ [][SlitNext]_vars

\* C7: matrix() returns num_proximity_domains^2 bytes when header.length is
\* at least size_of(Slit) + num_proximity_domains^2, no byte otherwise, and
\* never a slice that extends past header.length.
C7_MatrixLength ==
    slitCall[1] = "matrix" =>
        /\ slitRet[2] = IF slitLen >= SlitSize + num_proximity_domains * num_proximity_domains
                        THEN num_proximity_domains * num_proximity_domains
                        ELSE 0
        /\ SlitSize + slitRet[2] <= slitLen

\* C8: when the table holds the full N*N matrix, entry(i, j) for i, j < N
\* is the matrix byte at index i*N + j.
C8_EntryIsRowMajor ==
    (/\ slitCall[1] = "entry"
     /\ slitLen >= SlitSize + num_proximity_domains * num_proximity_domains
     /\ slitCall[2] < num_proximity_domains
     /\ slitCall[3] < num_proximity_domains)
        => slitRet = <<"Some", SlitByte(slitCall[2] * num_proximity_domains + slitCall[3] + 1)>>

\* C13: entry(i, j) never indexes outside the slice matrix() returns: for
\* every i, j, num_proximity_domains and header.length it returns None or
\* a byte inside the matrix, and it returns None whenever
\* i >= num_proximity_domains or j >= num_proximity_domains.
C13_EntryStaysInsideMatrix ==
    slitCall[1] = "entry" =>
        /\ slitRet[1] \in {"None", "Some"}
        /\ slitRet[1] = "Some" =>
              EntryIndex(slitCall[2], slitCall[3], num_proximity_domains)
                  < MatrixLen(num_proximity_domains, slitLen)
        /\ (slitCall[2] >= num_proximity_domains \/ slitCall[3] >= num_proximity_domains)
              => slitRet = <<"None">>

(***************************************************************************)
(* wakeup_aps and the target processor it shakes hands with.  One step per *)
(* access of the shared mailbox, so that the two sides interleave.         *)
(***************************************************************************)
\* The most calls of wakeup_aps in a behaviour.
MaxAttempts == 2
\* The largest timeout_loops a caller passes.
MaxTimeout == 2

\* MpProtectedModeWakeupCommand::Noop as u16 / ::Wakeup as u16
CmdNoop == 0
CmdWakeup == 1

\* The APIC ids and wakeup vectors callers pass.
ApicIds == {1, 2}
Vectors == {4096, 8192}

\* MpProtectedModeWakeupCommand as u16
AsU16(c) == IF c = "Noop" THEN CmdNoop ELSE CmdWakeup

\* MpProtectedModeWakeupCommand::from(u16)
IntoCommand(v) ==
    CASE v = CmdNoop -> "Noop"
      [] v = CmdWakeup -> "Wakeup"
      [] OTHER -> "Other"

\* handler.map_physical_region: the mapping made by call n is now held
MapPhysicalRegion(h, n) == h \cup {n}

\* Dropping the PhysicalMapping releases it (unmap on release)
UnmapPhysicalRegion(h, n) == h \ {n}

\* Mutant (C4): the timeout test is off by one.
TimedOutLate(l, t) == l > t

\* loops >= timeout_loops
TimedOut(l, t) == l >= t

WakeInit ==
    /\ hasMailbox \in BOOLEAN
    /\ wpc = "idle"
    /\ attemptNo = 0
    /\ apic_id = 0
    /\ wakeup_vector = 0
    /\ timeout_loops = 0
    /\ loops = 0
    /\ command = "-"
    /\ wres = "-"
    /\ readLog = <<>>
    /\ writeLog = <<>>
    /\ mb_command = CmdNoop
    /\ mb_apic_id = 0
    /\ mb_wakeup_vector = 0
    /\ cmdWriter = 0
    /\ maps = 0
    /\ unmaps = 0
    /\ held = {}
    /\ appc = "poll"
    /\ apSeen = <<>>
    /\ consumedReqs = {}
    /\ SratParked /\ NumaParked /\ SlitParked

\* Lines 143-144: no MADT, or no mailbox in it: return the error, nothing mapped.
WakeNoMailbox ==
    /\ wpc = "idle"
    /\ ~hasMailbox
    /\ attemptNo < MaxAttempts
    /\ attemptNo' = attemptNo + 1
    /\ wres' = "NoMailbox"
    /\ UNCHANGED <<writeLog, hasMailbox, wpc, apic_id, wakeup_vector, timeout_loops, loops, command, readLog,
                   mb_command, mb_apic_id, mb_wakeup_vector, cmdWriter, maps, unmaps, held,
                   appc, apSeen, consumedReqs>>
    /\ UNCHANGED <<sratVars, numaVars, slitVars>>

(***************************************************************************)
(* The two volatile writes of the command field (lines 154 and 161) and    *)
(* the volatile reads of the loop take effect in program order.  The       *)
(* stores of lines 158 and 159 are plain stores through the mapping: they  *)
(* are ordered with the calls that hand the mapping out and back           *)
(* (map_physical_region, the drop of the mapping), but a build may let     *)
(* them take effect before or after any volatile access in between, and    *)
(* nothing orders them with the target processor's accesses.  Each of them *)
(* is an action of its own, enabled from the mapping to the return.        *)
(***************************************************************************)
\* The store to the mailbox field f of the current call has taken effect.
Stored(f) == \E k \in 1..Len(writeLog) : writeLog[k] = f

\* Both plain stores have reached the mailbox.
PlainStoresLanded == Stored("apic_id") /\ Stored("wakeup_vector")

\* Lines 143-150: a call whose mailbox is found maps it.
WakeMap ==
    \E a \in ApicIds, v \in Vectors, t \in 0..MaxTimeout :
        /\ wpc = "idle"
        /\ hasMailbox
        /\ attemptNo < MaxAttempts
        /\ attemptNo' = attemptNo + 1
        /\ apic_id' = a
        /\ wakeup_vector' = v
        /\ timeout_loops' = t
        /\ held' = MapPhysicalRegion(held, attemptNo + 1)
        /\ maps' = maps + 1
        /\ wres' = "-"
        /\ readLog' = <<>>
        /\ writeLog' = <<>>
        /\ wpc' = "reset"
        /\ UNCHANGED <<hasMailbox, loops, command, mb_command, mb_apic_id, mb_wakeup_vector,
                       cmdWriter, unmaps, appc, apSeen, consumedReqs>>
        /\ UNCHANGED <<sratVars, numaVars, slitVars>>

\* Line 154: write_volatile(command, Noop)
WriteNoop ==
    /\ wpc = "reset"
    /\ mb_command' = AsU16("Noop")
    /\ cmdWriter' = 0
    /\ writeLog' = Append(writeLog, "command=Noop")
    /\ wpc' = "signal"
    /\ UNCHANGED <<hasMailbox, attemptNo, apic_id, wakeup_vector, timeout_loops, loops, command, wres,
                   readLog, mb_apic_id, mb_wakeup_vector, maps, unmaps, held, appc, apSeen, consumedReqs>>
    /\ UNCHANGED <<sratVars, numaVars, slitVars>>

\* Line 158: mailbox.apic_id = apic_id (a plain store)
WriteApicId ==
    /\ wpc \in {"reset", "signal", "wait"}
    /\ ~Stored("apic_id")
    /\ mb_apic_id' = apic_id
    /\ writeLog' = Append(writeLog, "apic_id")
    /\ UNCHANGED <<hasMailbox, wpc, attemptNo, apic_id, wakeup_vector, timeout_loops, loops, command,
                   wres, readLog, mb_command, mb_wakeup_vector, cmdWriter, maps, unmaps, held, appc,
                   apSeen, consumedReqs>>
    /\ UNCHANGED <<sratVars, numaVars, slitVars>>

\* Line 159: mailbox.wakeup_vector = wakeup_vector (a plain store)
WriteVector ==
    /\ wpc \in {"reset", "signal", "wait"}
    /\ ~Stored("wakeup_vector")
    /\ mb_wakeup_vector' = wakeup_vector
    /\ writeLog' = Append(writeLog, "wakeup_vector")
    /\ UNCHANGED <<hasMailbox, wpc, attemptNo, apic_id, wakeup_vector, timeout_loops, loops, command,
                   wres, readLog, mb_command, mb_apic_id, cmdWriter, maps, unmaps, held, appc,
                   apSeen, consumedReqs>>
    /\ UNCHANGED <<sratVars, numaVars, slitVars>>

\* Lines 161-166: write_volatile(command, Wakeup); loops = 0; command = Wakeup
WriteWakeup ==
    /\ wpc = "signal"
    /\ mb_command' = AsU16("Wakeup")
    /\ cmdWriter' = attemptNo
    /\ writeLog' = Append(writeLog, "command=Wakeup")
    /\ loops' = 0
    /\ command' = "Wakeup"
    /\ wpc' = "wait"
    /\ UNCHANGED <<hasMailbox, attemptNo, apic_id, wakeup_vector, timeout_loops, wres, readLog,
                   mb_apic_id, mb_wakeup_vector, maps, unmaps, held, appc, apSeen, consumedReqs>>
    /\ UNCHANGED <<sratVars, numaVars, slitVars>>

\* Lines 167-177: one more iteration: read_volatile(command).into(); loops += 1
ReadCommand ==
    /\ wpc = "wait"
    /\ command # "Noop"
    /\ ~TimedOut(loops, timeout_loops)
    /\ command' = IntoCommand(mb_command)
    /\ readLog' = Append(readLog, mb_command)
    /\ loops' = loops + 1
    /\ UNCHANGED <<writeLog, hasMailbox, wpc, attemptNo, apic_id, wakeup_vector, timeout_loops, wres,
                   mb_command, mb_apic_id, mb_wakeup_vector, cmdWriter, maps, unmaps, held,
                   appc, apSeen, consumedReqs>>
    /\ UNCHANGED <<sratVars, numaVars, slitVars>>

\* Mutant (C5): the timeout path returns without releasing the mapping.
ReturnTimeoutLeaking ==
    /\ wpc = "wait"
    /\ command # "Noop"
    /\ TimedOut(loops, timeout_loops)
    /\ PlainStoresLanded
    /\ wres' = "Timeout"
    /\ wpc' = "idle"
    /\ UNCHANGED <<writeLog, hasMailbox, attemptNo, apic_id, wakeup_vector, timeout_loops, loops, command,
                   readLog, mb_command, mb_apic_id, mb_wakeup_vector, cmdWriter, maps, unmaps, held,
                   appc, apSeen, consumedReqs>>
    /\ UNCHANGED <<sratVars, numaVars, slitVars>>

\* Lines 168-170: return Err(WakeupApsTimeout); the mapping goes out of scope
\* (the plain stores have landed by the time it is handed back).
ReturnTimeout ==
    /\ wpc = "wait"
    /\ command # "Noop"
    /\ TimedOut(loops, timeout_loops)
    /\ PlainStoresLanded
    /\ held' = UnmapPhysicalRegion(held, attemptNo)
    /\ unmaps' = unmaps + 1
    /\ wres' = "Timeout"
    /\ wpc' = "idle"
    /\ UNCHANGED <<writeLog, hasMailbox, attemptNo, apic_id, wakeup_vector, timeout_loops, loops, command,
                   readLog, mb_command, mb_apic_id, mb_wakeup_vector, cmdWriter, maps,
                   appc, apSeen, consumedReqs>>
    /\ UNCHANGED <<sratVars, numaVars, slitVars>>

\* Lines 167, 179-181: the loop ends; drop(mpwk_mapping); Ok(())
ReturnOk ==
    /\ wpc = "wait"
    /\ command = "Noop"
    /\ PlainStoresLanded
    /\ held' = UnmapPhysicalRegion(held, attemptNo)
    /\ unmaps' = unmaps + 1
    /\ wres' = "Ok"
    /\ wpc' = "idle"
    /\ UNCHANGED <<writeLog, hasMailbox, attemptNo, apic_id, wakeup_vector, timeout_loops, loops, command,
                   readLog, mb_command, mb_apic_id, mb_wakeup_vector, cmdWriter, maps,
                   appc, apSeen, consumedReqs>>
    /\ UNCHANGED <<sratVars, numaVars, slitVars>>

(***************************************************************************)
(* The target processor: it polls the command field; on Wakeup it reads    *)
(* apic_id and wakeup_vector, then resets the command field to Noop.  Each *)
(* access is a step of its own, at its own pace.                           *)
(***************************************************************************)
ApSeesWakeup ==
    /\ appc = "poll"
    /\ mb_command = CmdWakeup
    /\ apSeen' = <<cmdWriter>>
    /\ appc' = "apic"
    /\ UNCHANGED <<writeLog, hasMailbox, wpc, attemptNo, apic_id, wakeup_vector, timeout_loops, loops, command,
                   wres, readLog, mb_command, mb_apic_id, mb_wakeup_vector, cmdWriter, maps, unmaps,
                   held, consumedReqs>>
    /\ UNCHANGED <<sratVars, numaVars, slitVars>>

ApReadsApicId ==
    /\ appc = "apic"
    /\ apSeen' = Append(apSeen, mb_apic_id)
    /\ appc' = "vector"
    /\ UNCHANGED <<writeLog, hasMailbox, wpc, attemptNo, apic_id, wakeup_vector, timeout_loops, loops, command,
                   wres, readLog, mb_command, mb_apic_id, mb_wakeup_vector, cmdWriter, maps, unmaps,
                   held, consumedReqs>>
    /\ UNCHANGED <<sratVars, numaVars, slitVars>>

ApReadsVector ==
    /\ appc = "vector"
    /\ apSeen' = Append(apSeen, mb_wakeup_vector)
    /\ appc' = "ack"
    /\ UNCHANGED <<writeLog, hasMailbox, wpc, attemptNo, apic_id, wakeup_vector, timeout_loops, loops, command,
                   wres, readLog, mb_command, mb_apic_id, mb_wakeup_vector, cmdWriter, maps, unmaps,
                   held, consumedReqs>>
    /\ UNCHANGED <<sratVars, numaVars, slitVars>>

ApResetsCommand ==
    /\ appc = "ack"
    /\ mb_command' = CmdNoop
    /\ cmdWriter' = 0
    /\ consumedReqs' = consumedReqs \cup {apSeen}
    /\ apSeen' = <<>>
    /\ appc' = "poll"
    /\ UNCHANGED <<writeLog, hasMailbox, wpc, attemptNo, apic_id, wakeup_vector, timeout_loops, loops, command,
                   wres, readLog, mb_apic_id, mb_wakeup_vector, maps, unmaps, held>>
    /\ UNCHANGED <<sratVars, numaVars, slitVars>>

WakeNext ==
    \/ WakeNoMailbox
    \/ WakeMap
    \/ WriteNoop
    \/ WriteApicId
    \/ WriteVector
    \/ WriteWakeup
    \/ ReadCommand
    \/ ReturnTimeout
    \/ ReturnOk
    \/ ApSeesWakeup
    \/ ApReadsApicId
    \/ ApReadsVector
    \/ ApResetsCommand

WakeSpec == WakeInit /\ [][WakeNext]_vars

(***************************************************************************)
(* Claims about wakeup_aps (checked under WakeSpec).                       *)
(***************************************************************************)
\* The last call reached the spin-wait and has returned.
HandshakeReturned == wpc = "idle" /\ wres \in {"Ok", "Timeout"}

\* One of the first timeout_loops volatile reads of the call returned Noop.
NoopAmongFirstReads ==
    \E k \in 1..Len(readLog) : k <= timeout_loops /\ readLog[k] = CmdNoop

\* C4: a call that mapped the mailbox returns Ok exactly when one of its
\* first timeout_loops reads of the command field returned Noop; a call
\* that times out has made exactly timeout_loops reads, none of them Noop;
\* and the spin-wait never makes more than timeout_loops reads.
C4_SpinWaitOutcome ==
    /\ wpc = "wait" => Len(readLog) <= timeout_loops /\ loops = Len(readLog)
    /\ HandshakeReturned =>
          /\ (wres = "Ok") <=> NoopAmongFirstReads
          /\ wres = "Timeout" =>
                /\ Len(readLog) = timeout_loops
                /\ \A k \in 1..Len(readLog) : readLog[k] # CmdNoop

\* C4 witness: a call returned Ok on the last read its timeout allowed.
C4_Witness ==
    /\ HandshakeReturned
    /\ wres = "Ok"
    /\ timeout_loops >= 2
    /\ Len(readLog) = timeout_loops

\* C5: between calls no mapping is held and as many mappings were released
\* as were made; during a handshake exactly the call's own mapping is held;
\* and every call that found the mailbox mapped it exactly once (a call
\* that did not find it mapped nothing).
C5_MappingsReleased ==
    /\ wpc = "idle" => held = {} /\ unmaps = maps
    /\ wpc # "idle" => held = {attemptNo} /\ maps = unmaps + 1
    /\ maps = IF hasMailbox THEN attemptNo ELSE 0

\* C5 witness: two calls were made, the last one timed out, both mappings
\* were released.
C5_Witness ==
    /\ wpc = "idle"
    /\ wres = "Timeout"
    /\ attemptNo = 2
    /\ unmaps = 2
    /\ consumedReqs # {}

\* C6: a call returns Ok only if the target processor consumed the request
\* that call wrote: it saw that call's Wakeup together with that call's
\* apic_id and wakeup_vector, and then reset the command field.
C6_OkMeansOwnRequestConsumed ==
    (wpc = "idle" /\ wres = "Ok") =>
        <<attemptNo, apic_id, wakeup_vector>> \in consumedReqs

\* The order in which the source text of wakeup_aps stores to the mailbox.
ProgramOrder == <<"command=Noop", "apic_id", "wakeup_vector", "command=Wakeup">>

====
